---- MODULE Spec2Model ----
(***************************************************************************)
(* Model of src/NetworkGraphVisualizer.js: the vis-data node and edge      *)
(* collections of the component, its four click handlers (addNode,         *)
(* addEdge, findShortestPath, clearNetwork) and the dijkstra function.     *)
(*                                                                         *)
(* Spec          the component: every step is one click handler, run to    *)
(*               completion on the form contents the onChange handlers     *)
(*               stored before the click.  The form fields newNode and     *)
(*               newEdge are the handlers' inputs and are drawn at the     *)
(*               click; their reset (lines 108, 124) is the input "" / 1.  *)
(* SpecDijkstra  one call of dijkstra on a graph the component can hold,   *)
(*               one step per iteration of its two while loops.            *)
(***************************************************************************)
EXTENDS Integers, Sequences, FiniteSets, TLC

VARIABLES nodes, edges, shortestPath, run

vars == <<nodes, edges, shortestPath, run>>

(***************************************************************************)
(* Bounds of the model.                                                    *)
(***************************************************************************)
MaxEdges == 2       \* Spec: edges.add is modelled while fewer edges are stored
MaxGraphEdges == 3  \* SpecDijkstra: edges of the graph handed to dijkstra
MaxSteps == 10      \* loop iterations of one dijkstra call that are followed

(***************************************************************************)
(* What the user can type.  The text inputs upper-case what is typed.      *)
(***************************************************************************)
TypedIds == {"", "a", "A", "B"}

toUpperCase(s) ==
  CASE s = "a" -> "A"
    [] s = "b" -> "B"
    [] s = "c" -> "C"
    [] OTHER   -> s

FormIds == {toUpperCase(s) : s \in TypedIds}

NodeIds == FormIds \ {""}

\* The value attribute of the number input: "" when the field is empty or
\* holds no number.
TypedWeights == {"", "-1", "0"}

\* JavaScript values of newEdge.weight: the number 1 of the initial and the
\* reset form, or the string the number input delivered.
JsNumber(n) == [t |-> "number", n |-> n, s |-> ""]
JsString(s) == [t |-> "string", n |-> 0, s |-> s]

FormWeights == {JsNumber(1)} \cup {JsString(s) : s \in TypedWeights}

parseFloat(w) ==
  IF w.t = "number" THEN w.n
  ELSE CASE w.s = "-1" -> -1
         [] w.s = "0"  -> 0
         [] w.s = "1"  -> 1
         [] w.s = "5"  -> 5

toString(w) ==
  IF w.t = "string" THEN w.s
  ELSE CASE w.n = 1 -> "1"

\* ToBoolean of a form value: a string is truthy unless empty (so "0" and
\* "-1" are truthy), a number unless it is 0.
TruthyId(s) == s # ""
TruthyWeight(w) == IF w.t = "string" THEN w.s # "" ELSE w.n # 0

(***************************************************************************)
(* The DataSets.  A DataSet keeps its items in insertion order; get(id)    *)
(* is the item with that id or null, get() the array of all items.         *)
(***************************************************************************)
Has(ds, id) == \E i \in 1..Len(ds) : ds[i].id = id

Ids(ds) == {ds[i].id : i \in 1..Len(ds)}

\* lines 105-110 without !nodes.get(newNode)
addNodeMissingCheck(ns, newNode) ==
  IF TruthyId(newNode)
  THEN Append(ns, [id |-> newNode, label |-> newNode])
  ELSE ns

\* addNode, lines 105-110: the nodes DataSet after the click
addNode(ns, newNode) ==
  IF TruthyId(newNode) /\ ~Has(ns, newNode)
  THEN Append(ns, [id |-> newNode, label |-> newNode])
  ELSE ns

\* lines 113-126 without nodes.get(from) && nodes.get(to)
addEdgeNoEndpointCheck(ns, es, newEdge) ==
  IF /\ TruthyId(newEdge.from) /\ TruthyId(newEdge.to)
     /\ TruthyWeight(newEdge.weight)
  THEN Append(es, [from   |-> newEdge.from,
                   to     |-> newEdge.to,
                   label  |-> toString(newEdge.weight),
                   weight |-> parseFloat(newEdge.weight)])
  ELSE es

\* addEdge, lines 113-126: the edges DataSet after the click
addEdge(ns, es, newEdge) ==
  IF /\ TruthyId(newEdge.from) /\ TruthyId(newEdge.to)
     /\ TruthyWeight(newEdge.weight)
     /\ Has(ns, newEdge.from)
     /\ Has(ns, newEdge.to)
  THEN Append(es, [from   |-> newEdge.from,
                   to     |-> newEdge.to,
                   label  |-> toString(newEdge.weight),
                   weight |-> parseFloat(newEdge.weight)])
  ELSE es

(***************************************************************************)
(* JavaScript values inside dijkstra.                                      *)
(* A distance is a number, Infinity, undefined (a key never written) or    *)
(* NaN (undefined + number).                                               *)
(***************************************************************************)
Num(n)    == [k |-> "num", v |-> n]
Infinity  == [k |-> "inf", v |-> 0]
Undefined == [k |-> "undefined", v |-> 0]
NaN       == [k |-> "nan", v |-> 0]

\* d + w for a numeric weight w
Plus(d, w) ==
  CASE d.k = "num" -> Num(d.v + w)
    [] d.k = "inf" -> Infinity
    [] OTHER       -> NaN

\* a < b
Less(a, b) ==
  CASE a.k = "num" /\ b.k = "num" -> a.v < b.v
    [] a.k = "num" /\ b.k = "inf" -> TRUE
    [] OTHER                      -> FALSE

\* values of previous[...] that are no node id; ids are upper-cased, so
\* neither can be typed
null      == "null"
undefined == "undefined"

Truthy(c) == c \notin {null, undefined, ""}

\* ids of the graphs handed to dijkstra in SpecDijkstra, and the weights typed
\* for their edges
GraphIds == {"A", "B", "C"}
GraphWeights == {"-1", "0", "1", "5"}

Keys == NodeIds \cup GraphIds

(***************************************************************************)
(* dijkstra(graph, startNode, endNode), lines 19-61.  Its locals form the  *)
(* record r; distances and previous are objects, read here at every id of  *)
(* Keys, a key never written reading undefined.                            *)
(***************************************************************************)
Idle ==
  [pc |-> "idle", startNode |-> "", endNode |-> "",
   distances |-> [k \in Keys |-> Undefined],
   previous |-> [k \in Keys |-> undefined],
   pq |-> <<>>, path |-> <<>>, current |-> undefined, steps |-> 0]

\* lines 20-30 without line 29
dijkstraInitNoSource(graphNodes, startNode, endNode) ==
  [pc        |-> "loop",
   startNode |-> startNode,
   endNode   |-> endNode,
   distances |-> [k \in Keys |-> IF Has(graphNodes, k) THEN Infinity ELSE Undefined],
   previous  |-> [k \in Keys |-> IF Has(graphNodes, k) THEN null ELSE undefined],
   pq        |-> <<[node |-> startNode, distance |-> 0]>>,
   path      |-> <<>>,
   current   |-> undefined,
   steps     |-> 0]

\* lines 20-30 with 0 for Infinity in line 26
dijkstraInitZero(graphNodes, startNode, endNode) ==
  [pc        |-> "loop",
   startNode |-> startNode,
   endNode   |-> endNode,
   distances |-> [k \in Keys |->
                    IF k = startNode \/ Has(graphNodes, k) THEN Num(0) ELSE Undefined],
   previous  |-> [k \in Keys |-> IF Has(graphNodes, k) THEN null ELSE undefined],
   pq        |-> <<[node |-> startNode, distance |-> 0]>>,
   path      |-> <<>>,
   current   |-> undefined,
   steps     |-> 0]

\* lines 20-30
dijkstraInit(graphNodes, startNode, endNode) ==
  [pc        |-> "loop",
   startNode |-> startNode,
   endNode   |-> endNode,
   distances |-> [k \in Keys |->
                    IF k = startNode THEN Num(0)
                    ELSE IF Has(graphNodes, k) THEN Infinity ELSE Undefined],
   previous  |-> [k \in Keys |-> IF Has(graphNodes, k) THEN null ELSE undefined],
   pq        |-> <<[node |-> startNode, distance |-> 0]>>,
   path      |-> <<>>,
   current   |-> undefined,
   steps     |-> 0]

\* line 33: pq.sort((a, b) => a.distance - b.distance), a stable sort
RECURSIVE InsertSorted(_, _)
InsertSorted(sorted, x) ==
  IF sorted = <<>> THEN <<x>>
  ELSE IF Head(sorted).distance <= x.distance
       THEN <<Head(sorted)>> \o InsertSorted(Tail(sorted), x)
       ELSE <<x>> \o sorted

RECURSIVE sort(_)
sort(pq) ==
  IF pq = <<>> THEN <<>>
  ELSE InsertSorted(sort(SubSeq(pq, 1, Len(pq) - 1)), pq[Len(pq)])

\* lines 39-47 following an edge from its from end only
relaxEdgeDirected(r, node, edge) ==
  IF edge.from = node
  THEN LET neighbor == edge.to
           distance == Plus(r.distances[node], edge.weight)
       IN IF Less(distance, r.distances[neighbor])
          THEN [r EXCEPT !.distances[neighbor] = distance,
                         !.previous[neighbor]  = node,
                         !.pq = Append(@, [node |-> neighbor, distance |-> distance.v])]
          ELSE r
  ELSE r

\* lines 39-47: the callback of graph.edges.forEach on one edge
relaxEdge(r, node, edge) ==
  IF edge.from = node \/ edge.to = node
  THEN LET neighbor == IF edge.from = node THEN edge.to ELSE edge.from
           distance == Plus(r.distances[node], edge.weight)
       IN IF Less(distance, r.distances[neighbor])
          THEN [r EXCEPT !.distances[neighbor] = distance,
                         !.previous[neighbor]  = node,
                         !.pq = Append(@, [node |-> neighbor, distance |-> distance.v])]
          ELSE r
  ELSE r

\* line 38: graph.edges.forEach, edges i..Len(graphEdges) still to visit
RECURSIVE forEachEdge(_, _, _, _)
forEachEdge(r, node, graphEdges, i) ==
  IF i > Len(graphEdges) THEN r
  ELSE forEachEdge(relaxEdge(r, node, graphEdges[i]), node, graphEdges, i + 1)

\* lines 32-50 and 53-54: one test of while (pq.length) and the body it runs
loopStep(r, graphEdges) ==
  IF r.pq = <<>>
  THEN [r EXCEPT !.pc = "walk", !.current = r.endNode, !.steps = @ + 1]
  ELSE LET sorted == sort(r.pq)
           node   == Head(sorted).node
           popped == [r EXCEPT !.pq = Tail(sorted), !.steps = @ + 1]
       IN IF node = r.endNode
          THEN [popped EXCEPT !.pc = "walk", !.current = r.endNode]
          ELSE forEachEdge(popped, node, graphEdges, 1)

\* lines 55-58 with push for unshift
walkStepPush(r) ==
  IF Truthy(r.current)
  THEN [r EXCEPT !.path = Append(@, r.current),
                 !.current = r.previous[r.current],
                 !.steps = @ + 1]
  ELSE [r EXCEPT !.pc = "return"]

\* lines 55-58: one test of while (current) and the body it runs
walkStep(r) ==
  IF Truthy(r.current)
  THEN [r EXCEPT !.path = <<r.current>> \o @,
                 !.current = r.previous[r.current],
                 !.steps = @ + 1]
  ELSE [r EXCEPT !.pc = "return"]

\* line 60
result(r) == [path |-> r.path, distance |-> r.distances[r.endNode]]

step(r, graphEdges) ==
  IF r.pc = "loop" THEN loopStep(r, graphEdges) ELSE walkStep(r)

\* the call run to its return statement, as far as MaxSteps iterations go
RECURSIVE dijkstra(_, _)
dijkstra(r, graphEdges) ==
  IF r.pc = "return" \/ r.steps >= MaxSteps THEN r
  ELSE dijkstra(step(r, graphEdges), graphEdges)

(***************************************************************************)
(* The component.                                                          *)
(***************************************************************************)
\* useState([]) and setShortestPath([]): an array has no path and no
\* distance; a result of dijkstra always has endNode in its path
EmptyArray == [path |-> <<>>, distance |-> Undefined]

NewEdges == [from : FormIds, to : FormIds, weight : FormWeights]

Init ==
  /\ nodes = <<>>
  /\ edges = <<>>
  /\ shortestPath = EmptyArray
  /\ run = Idle

\* click on the add-node button, lines 105-110, newNode as line 190 stored it
AddNode ==
  \E typed \in TypedIds :
    /\ nodes' = addNode(nodes, toUpperCase(typed))
    /\ UNCHANGED <<edges, shortestPath, run>>

\* click on Add Edge, lines 113-126, newEdge as lines 210-224 stored it or
\* as line 124 reset it
AddEdge ==
  \E newEdge \in NewEdges :
    /\ Len(edges) < MaxEdges
    /\ edges' = addEdge(nodes, edges, newEdge)
    /\ UNCHANGED <<nodes, shortestPath, run>>

\* click on Find Path, lines 129-142.  The handler stores a result when the
\* call returns; a call still in a loop after MaxSteps iterations is not
\* followed (SpecDijkstra follows the calls step by step).
FindShortestPath ==
  \E from \in FormIds, to \in FormIds :
    /\ TruthyId(from) /\ TruthyId(to)
    /\ LET r == dijkstra(dijkstraInit(nodes, from, to), edges)
       IN /\ r.pc = "return"
          /\ shortestPath' = result(r)
    /\ UNCHANGED <<nodes, edges, run>>

\* click on Clear Network, lines 145-149
ClearNetwork ==
  /\ nodes' = <<>>
  /\ edges' = <<>>
  /\ shortestPath' = EmptyArray
  /\ UNCHANGED run

Next == AddNode \/ AddEdge \/ FindShortestPath \/ ClearNetwork

Spec == Init /\ [][Next]_vars

(***************************************************************************)
(* One call of dijkstra, step by step, on any graph the component can      *)
(* hold: nodes with distinct ids, edges as addEdge stores them.            *)
(***************************************************************************)
\* The node lists: every set of ids, in one order (lines 25-28 write the same
\* distances and previous in any order).
NodeLists ==
  {<<>>, <<"A">>, <<"B">>, <<"C">>, <<"A", "B">>, <<"A", "C">>, <<"B", "C">>,
   <<"A", "B", "C">>}

NodeItems(ids) == [i \in 1..Len(ids) |-> [id |-> ids[i], label |-> ids[i]]]

\* The edges addEdge stores between nodes of ns, each pair of ids one way
\* round: lines 39-40 read an edge the same way from either end.
GraphNewEdges ==
  {ne \in [from : GraphIds, to : GraphIds, weight : {JsString(w) : w \in GraphWeights}] :
     \E i, j \in 1..3 : i <= j /\ ne.from = <<"A", "B", "C">>[i] /\ ne.to = <<"A", "B", "C">>[j]}

StoredEdges(ns) ==
  {addEdge(ns, <<>>, ne)[1] : ne \in {e \in GraphNewEdges : addEdge(ns, <<>>, e) # <<>>}}

EdgeLists(ns) == UNION {[1..n -> StoredEdges(ns)] : n \in 0..MaxGraphEdges}

\* The queries: dijkstra compares ids only for equality, so a query between
\* other ids is one of these on the graph with the ids renamed.
QuerySources == {"A"}
QueryTargets == {"A", "B"}

InitDijkstra ==
  /\ nodes \in {NodeItems(ids) : ids \in NodeLists}
  /\ edges \in EdgeLists(nodes)
  /\ shortestPath = EmptyArray
  /\ \E from \in QuerySources, to \in QueryTargets :
        run = dijkstraInit(nodes, from, to)

DijkstraLoop ==
  /\ run.pc = "loop"
  /\ run.steps < MaxSteps
  /\ run' = loopStep(run, edges)
  /\ UNCHANGED <<nodes, edges, shortestPath>>

DijkstraWalk ==
  /\ run.pc = "walk"
  /\ run.steps < MaxSteps
  /\ run' = walkStep(run)
  /\ UNCHANGED <<nodes, edges, shortestPath>>

\* line 60 and setShortestPath(result), line 140
DijkstraReturn ==
  /\ run.pc = "return"
  /\ shortestPath' = result(run)
  /\ run' = [run EXCEPT !.pc = "done"]
  /\ UNCHANGED <<nodes, edges>>

NextDijkstra == DijkstraLoop \/ DijkstraWalk \/ DijkstraReturn

SpecDijkstra == InitDijkstra /\ [][NextDijkstra]_vars

(***************************************************************************)
(* The graph as the specification reads it: undirected, weighted.          *)
(***************************************************************************)
Min(S) == CHOOSE x \in S : \A y \in S : x <= y

RECURSIVE Sum(_)
Sum(q) == IF q = <<>> THEN 0 ELSE Head(q) + Sum(Tail(q))

\* the weights of the edges that join a and b, either way round
WeightsBetween(a, b) ==
  {edges[i].weight : i \in {j \in 1..Len(edges) :
      \/ edges[j].from = a /\ edges[j].to = b
      \/ edges[j].from = b /\ edges[j].to = a}}

Joined(a, b) == WeightsBetween(a, b) # {}

\* sequences of distinct node ids, each joined by an edge to the next
SimplePaths(source, target) ==
  {p \in UNION {[1..n -> Ids(nodes)] : n \in 1..Len(nodes)} :
     /\ p[1] = source
     /\ p[Len(p)] = target
     /\ \A i, j \in 1..Len(p) : p[i] = p[j] => i = j
     /\ \A i \in 1..Len(p) - 1 : Joined(p[i], p[i + 1])}

Reachable(source, target) == SimplePaths(source, target) # {}

\* with no negative weight a cheapest path is a simple path over the
\* cheapest edge of each pair
MinCost(source, target) ==
  Min({Sum([i \in 1..Len(p) - 1 |-> Min(WeightsBetween(p[i], p[i + 1]))]) :
         p \in SimplePaths(source, target)})

NonNegative == \A i \in 1..Len(edges) : edges[i].weight >= 0

\* the totals of path p over every choice of an edge for each consecutive pair
RECURSIVE PathSums(_)
PathSums(p) ==
  IF Len(p) <= 1 THEN {0}
  ELSE {w + rest : w \in WeightsBetween(p[1], p[2]), rest \in PathSums(Tail(p))}

Finite(d) == d.k = "num"

Returned == run.pc = "done"

EdgeIs(e, a, b, w) == e.from = a /\ e.to = b /\ e.weight = w

(***************************************************************************)
(* C1  With no negative weight and the target reachable from the source    *)
(* (both nodes), the distance dijkstra returns is the minimum total weight *)
(* over all paths between them, edges usable both ways, the cheaper of     *)
(* parallel edges counting.                                                *)
(***************************************************************************)
C1_MinimumDistance ==
  (/\ Returned
   /\ NonNegative
   /\ Has(nodes, run.startNode) /\ Has(nodes, run.endNode)
   /\ Reachable(run.startNode, run.endNode))
  => shortestPath.distance = Num(MinCost(run.startNode, run.endNode))

\* The triangle with sides 1, 1 and 5, the direct edge of weight 5 met first
\* and the second side stored from the target: the call stops when the target
\* is extracted at 2, its entry at 5 still in the frontier.
C1_Witness ==
  /\ Returned
  /\ Len(edges) = 3
  /\ EdgeIs(edges[1], "A", "B", 5)
  /\ EdgeIs(edges[2], "A", "C", 1)
  /\ EdgeIs(edges[3], "B", "C", 1)
  /\ run.startNode = "A" /\ run.endNode = "B"
  /\ shortestPath = [path |-> <<"A", "C", "B">>, distance |-> Num(2)]
  /\ run.pq # <<>>

(***************************************************************************)
(* C2  When the target is reachable from the source (both nodes), the      *)
(* returned path starts at the source, ends at the target, every           *)
(* consecutive pair of it is joined by an edge, and the returned distance  *)
(* is the sum of edge weights along those pairs.                           *)
(***************************************************************************)
C2_PathMatchesDistance ==
  (/\ Returned
   /\ Has(nodes, run.startNode) /\ Has(nodes, run.endNode)
   /\ Reachable(run.startNode, run.endNode))
  => LET p == shortestPath.path
     IN /\ p # <<>>
        /\ p[1] = run.startNode
        /\ p[Len(p)] = run.endNode
        /\ \A i \in 1..Len(p) - 1 : Joined(p[i], p[i + 1])
        /\ Finite(shortestPath.distance)
        /\ shortestPath.distance.v \in PathSums(p)

C2_Witness ==
  /\ Returned
  /\ Reachable(run.startNode, run.endNode)
  /\ Len(shortestPath.path) = 3
  /\ shortestPath.distance = Num(6)

(***************************************************************************)
(* C3  On a graph that does not hold the source id, as after clear(), a    *)
(* query returns a cost that is no finite number and a path of the target  *)
(* alone.  In Spec an empty graph with a result stored is one whose result *)
(* was computed on the empty graph: clearNetwork drops the result and      *)
(* nodes only grow until the next clear.                                   *)
(***************************************************************************)
C3_AbsentSourceUnreachable ==
  (nodes = <<>> /\ shortestPath # EmptyArray)
  => /\ ~Finite(shortestPath.distance)
     /\ Len(shortestPath.path) = 1

(***************************************************************************)
(* C4  Every stored edge has a weight >= 0: addEdge rejects a weight that  *)
(* is no valid non-negative number.                                        *)
(***************************************************************************)
C4_WeightsNonNegative ==
  \A i \in 1..Len(edges) : edges[i].weight >= 0

(***************************************************************************)
(* C5  Every call of dijkstra terminates; in particular the predecessor    *)
(* links never form a cycle, so the walk back from the target ends.        *)
(***************************************************************************)
RECURSIVE WalkEnds(_, _)
WalkEnds(current, fuel) ==
  \/ ~Truthy(current)
  \/ fuel > 0 /\ WalkEnds(run.previous[current], fuel - 1)

C5_PredecessorWalkEnds ==
  run.pc = "walk" => WalkEnds(run.current, Cardinality(Keys))

(***************************************************************************)
(* C6  When the source is a node and the target is not reachable from it   *)
(* (a node of another component, or no node), the returned path holds      *)
(* only the target, so does not begin at the source, and the returned cost *)
(* is no finite number: Infinity for a node, undefined for an id that is   *)
(* no node.                                                                *)
(***************************************************************************)
C6_UnreachableTarget ==
  (/\ Returned
   /\ Has(nodes, run.startNode)
   /\ ~Reachable(run.startNode, run.endNode))
  => /\ shortestPath.path = <<run.endNode>>
     /\ shortestPath.path[1] # run.startNode
     /\ shortestPath.distance =
          IF Has(nodes, run.endNode) THEN Infinity ELSE Undefined

\* the source has an edge, the target is a node of another component
C6_Witness ==
  /\ Returned
  /\ Has(nodes, run.startNode) /\ Has(nodes, run.endNode)
  /\ ~Reachable(run.startNode, run.endNode)
  /\ \E i \in 1..Len(edges) : edges[i].from = run.startNode /\ edges[i].to # run.startNode
  /\ shortestPath.distance = Infinity

(***************************************************************************)
(* C7  For a node x, whatever edges are incident to it, the query from x   *)
(* to x returns the path [x] and the cost 0.                               *)
(***************************************************************************)
C7_SameNodeZero ==
  (Returned /\ Has(nodes, run.startNode) /\ run.startNode = run.endNode)
  => shortestPath = [path |-> <<run.startNode>>, distance |-> Num(0)]

\* x carries a self-loop of negative weight and a zero-weight edge
C7_Witness ==
  /\ Returned
  /\ run.startNode = run.endNode
  /\ \E i, j \in 1..Len(edges) :
        /\ edges[i].from = run.startNode /\ edges[i].to = run.startNode
        /\ edges[i].weight < 0
        /\ edges[j].from = run.startNode /\ edges[j].to # run.startNode
        /\ edges[j].weight = 0
  /\ shortestPath.path = <<run.startNode>>

(***************************************************************************)
(* C8  No two stored nodes share an id; addNode of an empty id or of an id *)
(* already stored changes nothing, so a second addNode(x) leaves what the  *)
(* first left (addNode never touches the edges).                           *)
(***************************************************************************)
C8_NodeIdsUnique ==
  /\ \A i, j \in 1..Len(nodes) : nodes[i].id = nodes[j].id => i = j
  /\ \A typed \in TypedIds :
       LET x    == toUpperCase(typed)
           once == addNode(nodes, x)
       IN /\ addNode(once, x) = once
          /\ (x = "" \/ Has(nodes, x)) => once = nodes

\* A was added typed in lower case; typing it again in either case is refused
C8_Witness ==
  /\ Len(nodes) = 2
  /\ nodes[1].id = "A"
  /\ addNode(nodes, toUpperCase("a")) = nodes
  /\ addNode(nodes, toUpperCase("A")) = nodes

(***************************************************************************)
(* C9  Both endpoints of every stored edge are ids of stored nodes, and    *)
(* addEdge with an empty endpoint or one that is no stored node changes    *)
(* nothing.                                                                *)
(***************************************************************************)
C9_ReferentialIntegrity ==
  /\ \A i \in 1..Len(edges) :
       Has(nodes, edges[i].from) /\ Has(nodes, edges[i].to)
  /\ \A ne \in NewEdges :
       (~Has(nodes, ne.from) \/ ~Has(nodes, ne.to))
       => addEdge(nodes, edges, ne) = edges

\* an edge is stored and an id is typed that is no node
C9_Witness ==
  /\ Len(edges) >= 1
  /\ Len(nodes) = 1
  /\ \E ne \in NewEdges : TruthyId(ne.to) /\ ~Has(nodes, ne.to)

(***************************************************************************)
(* C10  A mutation of the graph supersedes the stored path result: after a *)
(* step that changes nodes or edges the component no longer holds the      *)
(* result it held before.                                                  *)
(***************************************************************************)
C10_MutationSupersedesResult ==
  [][((nodes' # nodes \/ edges' # edges) /\ shortestPath # EmptyArray)
       => shortestPath' # shortestPath]_vars

====
